---- MODULE Spec2Model ----
(***************************************************************************)
(* tui-slider: the SliderState value holder (src/src/state.rs) and the     *)
(* Slider widget's bar renderer (src/src/slider.rs).                       *)
(*                                                                         *)
(* Numbers.  An f64 is modelled as a record: either the not-a-number value *)
(* NaN, or a finite number counted in whole units, one unit being a fixed  *)
(* fraction of f64::EPSILON (F64_EPSILON units make one EPSILON).  Bounds  *)
(* are drawn on a grid of G units and percentages are fractions k/G, so    *)
(* every product range * percentage is a whole number of units and the     *)
(* arithmetic below is exact.  A percentage (a ratio of two f64) is kept   *)
(* as a fraction num/den.  The format is scaled down (1.0 is EPSILON *     *)
(* 2^MantBits units); rounding of f64 and overflow to infinity are outside *)
(* the modelled domain.                                                    *)
(***************************************************************************)
EXTENDS Integers, Sequences, FiniteSets, TLC

\* SliderState: its four fields, whether it has been constructed, and the
\* call made last
VARIABLES value, min, max, step, live, last

\* Slider (the widget): how far its life has come ("none", "built",
\* "panicked", "rendered"), its fields, the region it was rendered into, the
\* set_string calls of the render in order, and the buffer afterwards
VARIABLES phase, slider, area, writes, buf

stateVars == <<value, min, max, step, live, last>>

renderVars == <<phase, slider, area, writes, buf>>

vars == <<value, min, max, step, live, last, phase, slider, area, writes, buf>>

(***************************************************************************)
(* Bounds of the model.                                                    *)
(***************************************************************************)
\* grid step of the bounds, and denominator of the percentage inputs
G == 4
\* bounds are drawn from G * (-1 .. MaxIdx)
MaxIdx == 2
\* steps are drawn from -1 .. MaxStep
MaxStep == 3
\* positions handed to set_from_position are drawn from 0 .. MaxPos
MaxPos == 5

\* symbols have display widths 0 .. MaxSymW
MaxSymW == 2
\* regions are 0 .. MaxWidth columns wide
MaxWidth == 10

\* width of the significand of the modelled format (f64 has 52): 1.0 is
\* EPSILON * 2^MantBits, kept small enough for 1.0 to fit TLC's integers
MantBits == 10

\* f64::EPSILON, in units
F64_EPSILON == 6

\* 1.0, in units
ONE == F64_EPSILON * 2^MantBits

(***************************************************************************)
(* f64 values and their operations.                                        *)
(***************************************************************************)
Num(n) == [nan |-> FALSE, n |-> n]

NaN == [nan |-> TRUE, n |-> 0]

\* IEEE comparisons: every comparison with NaN is false
FLt(a, b) == ~a.nan /\ ~b.nan /\ a.n < b.n

FLe(a, b) == ~a.nan /\ ~b.nan /\ a.n <= b.n

FGt(a, b) == FLt(b, a)

FGe(a, b) == FLe(b, a)

FAdd(a, b) == IF a.nan \/ b.nan THEN NaN ELSE Num(a.n + b.n)

FSub(a, b) == IF a.nan \/ b.nan THEN NaN ELSE Num(a.n - b.n)

FAbs(a) == IF a.nan THEN NaN ELSE Num(IF a.n < 0 THEN -a.n ELSE a.n)

\* a percentage: the fraction num/den (den > 0), or NaN
Pct(num, den) == [nan |-> FALSE, num |-> num, den |-> den]

PNaN == [nan |-> TRUE, num |-> 0, den |-> 1]

PZero == Pct(0, 1)

POne == Pct(1, 1)

PLt(p, q) == ~p.nan /\ ~q.nan /\ p.num * q.den < q.num * p.den

PLe(p, q) == ~p.nan /\ ~q.nan /\ p.num * q.den <= q.num * p.den

PGt(p, q) == PLt(q, p)

\* IEEE equality of two percentages (false when either is NaN)
PEq(p, q) == ~p.nan /\ ~q.nan /\ p.num * q.den = q.num * p.den

\* a / b for b # 0 (every call site excludes a zero divisor)
FDiv(a, b) ==
    IF a.nan \/ b.nan \/ b.n = 0 THEN PNaN
    ELSE IF b.n > 0 THEN Pct(a.n, b.n) ELSE Pct(-a.n, -b.n)

\* r * p, exact on the grid
FMulPct(r, p) == IF r.nan \/ p.nan THEN NaN ELSE Num((r.n * p.num) \div p.den)

\* variant: a clamp that forgets the upper bound
ClampBroken(v, lo, hi) == IF FLt(v, lo) THEN lo ELSE v

\* f64::clamp: "if self < min {min} else if self > max {max} else {self}";
\* a NaN self is returned as it is
Clamp(v, lo, hi) == IF FLt(v, lo) THEN lo ELSE IF FGt(v, hi) THEN hi ELSE v

\* f64::clamp panics when min > max or a bound is NaN
ClampPanics(lo, hi) == ~FLe(lo, hi)

PClamp(p) == IF PLt(p, PZero) THEN PZero ELSE IF PGt(p, POne) THEN POne ELSE p

(***************************************************************************)
(* Inputs.                                                                 *)
(***************************************************************************)
BoundInputs == {Num(G * i) : i \in -1 .. MaxIdx} \cup {NaN}

ValueInputs == {Num(n) : n \in (-G - 1) .. (G * MaxIdx + 1)} \cup {NaN}

StepInputs == {Num(n) : n \in -1 .. MaxStep} \cup {NaN}

PctInputs == {Pct(k, G) : k \in -1 .. (G + 1)} \cup {PNaN}

\* lengths that keep range * pos / len on the grid, and the length 0
LenInputs == {l \in 0 .. G : l = 0 \/ G % l = 0}

PosInputs == 0 .. MaxPos

(***************************************************************************)
(* SliderState.                                                            *)
(***************************************************************************)
Fields == [value |-> value, min |-> min, max |-> max, step |-> step]

NoArgs == [v |-> Num(0), lo |-> Num(0), hi |-> Num(0), st |-> Num(0),
           pct |-> PZero, pos |-> 0, len |-> 0]

\* the record of the call just made: its name, its arguments, whether it
\* returned (ok) or panicked, and the fields before it
Call(op, args, ok) == [op |-> op, args |-> args, ok |-> ok, pre |-> Fields]

\* no SliderState constructed yet
StateInit ==
    /\ live = FALSE
    /\ value = Num(0)
    /\ min = Num(0)
    /\ max = Num(0)
    /\ step = Num(0)
    /\ last = [op |-> "none", args |-> NoArgs, ok |-> TRUE,
               pre |-> [value |-> Num(0), min |-> Num(0), max |-> Num(0), step |-> Num(0)]]

\* SliderState::new (a constructor has no receiver: it is the first call,
\* and one that panicked leaves no object to call)
new(v, mn, mx) ==
    /\ ~live /\ last.op = "none"
    /\ UNCHANGED renderVars
    /\ IF FLt(mn, mx)
       THEN /\ value' = Clamp(v, mn, mx)
            /\ min' = mn
            /\ max' = mx
            /\ step' = Num(ONE)
            /\ live' = TRUE
            /\ last' = Call("new", [NoArgs EXCEPT !.v = v, !.lo = mn, !.hi = mx], TRUE)
       ELSE /\ last' = Call("new", [NoArgs EXCEPT !.v = v, !.lo = mn, !.hi = mx], FALSE)
            /\ UNCHANGED <<value, min, max, step, live>>

\* SliderState::with_step
with_step(v, mn, mx, s) ==
    /\ ~live /\ last.op = "none"
    /\ UNCHANGED renderVars
    /\ IF FLt(mn, mx) /\ FGt(s, Num(0))
       THEN /\ value' = Clamp(v, mn, mx)
            /\ min' = mn
            /\ max' = mx
            /\ step' = s
            /\ live' = TRUE
            /\ last' = Call("with_step",
                            [NoArgs EXCEPT !.v = v, !.lo = mn, !.hi = mx, !.st = s], TRUE)
       ELSE /\ last' = Call("with_step",
                            [NoArgs EXCEPT !.v = v, !.lo = mn, !.hi = mx, !.st = s], FALSE)
            /\ UNCHANGED <<value, min, max, step, live>>

\* the body of SliderState::set_value, run on behalf of the call op:
\* self.value = value.clamp(self.min, self.max)
store_value(op, args, v) ==
    IF ClampPanics(min, max)
    THEN /\ last' = Call(op, args, FALSE)
         /\ UNCHANGED value
    ELSE /\ value' = Clamp(v, min, max)
         /\ last' = Call(op, args, TRUE)

\* SliderState::set_value
set_value(v) ==
    /\ live
    /\ UNCHANGED renderVars
    /\ store_value("set_value", [NoArgs EXCEPT !.v = v], v)
    /\ UNCHANGED <<min, max, step, live>>

\* variant: set_min without its assert
set_min_unchecked(mn) ==
    /\ live
    /\ UNCHANGED renderVars
    /\ min' = mn
    /\ value' = Clamp(value, mn, max)
    /\ last' = Call("set_min", [NoArgs EXCEPT !.lo = mn], TRUE)
    /\ UNCHANGED <<max, step, live>>

\* variant: set_min that does not re-clamp the value
set_min_noclamp(mn) ==
    /\ live
    /\ UNCHANGED renderVars
    /\ IF FLt(mn, max)
       THEN /\ min' = mn
            /\ last' = Call("set_min", [NoArgs EXCEPT !.lo = mn], TRUE)
            /\ UNCHANGED <<value, max, step, live>>
       ELSE /\ last' = Call("set_min", [NoArgs EXCEPT !.lo = mn], FALSE)
            /\ UNCHANGED <<value, min, max, step, live>>

\* SliderState::set_min
set_min(mn) ==
    /\ live
    /\ UNCHANGED renderVars
    /\ IF FLt(mn, max)
       THEN /\ min' = mn
            /\ value' = Clamp(value, mn, max)
            /\ last' = Call("set_min", [NoArgs EXCEPT !.lo = mn], TRUE)
            /\ UNCHANGED <<max, step, live>>
       ELSE /\ last' = Call("set_min", [NoArgs EXCEPT !.lo = mn], FALSE)
            /\ UNCHANGED <<value, min, max, step, live>>

\* variant: set_max assigning before its assert
set_max_assign_first(mx) ==
    /\ live
    /\ UNCHANGED renderVars
    /\ max' = mx
    /\ IF FGt(mx, min)
       THEN /\ value' = Clamp(value, min, mx)
            /\ last' = Call("set_max", [NoArgs EXCEPT !.hi = mx], TRUE)
            /\ UNCHANGED <<min, step, live>>
       ELSE /\ last' = Call("set_max", [NoArgs EXCEPT !.hi = mx], FALSE)
            /\ UNCHANGED <<value, min, step, live>>

\* SliderState::set_max
set_max(mx) ==
    /\ live
    /\ UNCHANGED renderVars
    /\ IF FGt(mx, min)
       THEN /\ max' = mx
            /\ value' = Clamp(value, min, mx)
            /\ last' = Call("set_max", [NoArgs EXCEPT !.hi = mx], TRUE)
            /\ UNCHANGED <<min, step, live>>
       ELSE /\ last' = Call("set_max", [NoArgs EXCEPT !.hi = mx], FALSE)
            /\ UNCHANGED <<value, min, max, step, live>>

\* SliderState::percentage of the fields f
percentage_of(f) ==
    IF FLt(FAbs(FSub(f.max, f.min)), Num(F64_EPSILON)) THEN PZero
    ELSE FDiv(FSub(f.value, f.min), FSub(f.max, f.min))

\* SliderState::percentage
percentage == percentage_of(Fields)

\* variant: the range taken as max instead of max - min
percentage_target_nomin(p) == FAdd(min, FMulPct(max, PClamp(p)))

\* the argument SliderState::set_percentage hands to set_value:
\* self.min + (self.max - self.min) * percentage.clamp(0.0, 1.0)
percentage_target(p) == FAdd(min, FMulPct(FSub(max, min), PClamp(p)))

\* SliderState::set_percentage
set_percentage(p) ==
    /\ live
    /\ UNCHANGED renderVars
    /\ store_value("set_percentage", [NoArgs EXCEPT !.pct = p], percentage_target(p))
    /\ UNCHANGED <<min, max, step, live>>

\* SliderState::increase
increase(s) ==
    /\ live
    /\ UNCHANGED renderVars
    /\ store_value("increase", [NoArgs EXCEPT !.st = s], FAdd(value, s))
    /\ UNCHANGED <<min, max, step, live>>

\* SliderState::decrease
decrease(s) ==
    /\ live
    /\ UNCHANGED renderVars
    /\ store_value("decrease", [NoArgs EXCEPT !.st = s], FSub(value, s))
    /\ UNCHANGED <<min, max, step, live>>

\* variant: step_up that ignores the stored step
step_up_by_one ==
    /\ live
    /\ UNCHANGED renderVars
    /\ store_value("step_up", NoArgs, FAdd(value, Num(1)))
    /\ UNCHANGED <<min, max, step, live>>

\* SliderState::step_up: self.increase(self.step)
step_up ==
    /\ live
    /\ UNCHANGED renderVars
    /\ store_value("step_up", NoArgs, FAdd(value, step))
    /\ UNCHANGED <<min, max, step, live>>

\* SliderState::step_down: self.decrease(self.step)
step_down ==
    /\ live
    /\ UNCHANGED renderVars
    /\ store_value("step_down", NoArgs, FSub(value, step))
    /\ UNCHANGED <<min, max, step, live>>

\* variant: set_step without its assert
set_step_unchecked(s) ==
    /\ live
    /\ UNCHANGED renderVars
    /\ step' = s
    /\ last' = Call("set_step", [NoArgs EXCEPT !.st = s], TRUE)
    /\ UNCHANGED <<value, min, max, live>>

\* SliderState::set_step
set_step(s) ==
    /\ live
    /\ UNCHANGED renderVars
    /\ IF FGt(s, Num(0))
       THEN /\ step' = s
            /\ last' = Call("set_step", [NoArgs EXCEPT !.st = s], TRUE)
            /\ UNCHANGED <<value, min, max, live>>
       ELSE /\ last' = Call("set_step", [NoArgs EXCEPT !.st = s], FALSE)
            /\ UNCHANGED <<value, min, max, step, live>>

\* variant: a length of 0 taken as 0%
set_from_position_zero_len(pos, len) ==
    /\ live
    /\ UNCHANGED renderVars
    /\ store_value("set_from_position", [NoArgs EXCEPT !.pos = pos, !.len = len],
                   IF len = 0 THEN min ELSE percentage_target(Pct(pos, len)))
    /\ UNCHANGED <<min, max, step, live>>

\* SliderState::set_from_position
set_from_position(pos, len) ==
    /\ live
    /\ UNCHANGED renderVars
    /\ IF len = 0
       THEN /\ last' = Call("set_from_position",
                            [NoArgs EXCEPT !.pos = pos, !.len = len], TRUE)
            /\ UNCHANGED value
       ELSE store_value("set_from_position", [NoArgs EXCEPT !.pos = pos, !.len = len],
                        percentage_target(Pct(pos, len)))
    /\ UNCHANGED <<min, max, step, live>>

(***************************************************************************)
(* Slider, the widget.  A symbol is kept as its display width (what        *)
(* UnicodeWidthStr::width returns for it: 0 for an empty or zero-width     *)
(* string, 2 for a wide glyph); it stands for one grapheme of that width.  *)
(***************************************************************************)
\* the buffer handed to render has columns 0 .. BufW - 1
BufW == MaxWidth + 2

\* the tallest region a render is given
MaxHeight == 5

\* the buffer has BufH rows: one more than any region reaches
BufH == MaxHeight + 2

BufArea == [x |-> 0, y |-> 0, width |-> BufW, height |-> BufH]

\* a cell nothing was written to
Blank == [g |-> "blank", off |-> 0]

\* Buffer::empty
EmptyBuf == [c \in (0 .. BufW - 1) \X (0 .. BufH - 1) |-> Blank]

\* no set_string call yet
NoWrites == [fill |-> <<>>, handle |-> <<>>]

\* no label or value written
NoText == [label |-> <<>>, value |-> <<>>, ovf |-> FALSE]

\* the set_string calls of one render: the text's and the bar's
Rendering(t, b) ==
    [label |-> t.label, value |-> t.value, fill |-> b.fill, handle |-> b.handle]

NoArea == [x |-> 0, y |-> 0, width |-> 0, height |-> 0]

\* the regions a render is given: inside the buffer
\* the widest of the tall regions
TallWidth == 3

\* the regions a render is given: inside the buffer, wide or tall
AreaInputs ==
    {a \in [x : 0 .. 1, y : 0 .. 1, width : 0 .. MaxWidth, height : 0 .. MaxHeight] :
        /\ a.x + a.width <= BufW /\ a.y + a.height <= BufH
        /\ (a.height <= 1 \/ a.width <= TallWidth)}

\* Option<String> label: None, or the display width of the label
NoLabel == -1

SymbolInputs == 0 .. MaxSymW

SliderBoundInputs == {Num(0), Num(G * MaxIdx)}

SliderValueInputs == {Num(n) : n \in 0 .. (G * MaxIdx)} \cup {NaN}

\* no Slider constructed yet
NoSlider ==
    [value |-> Num(0), min |-> Num(0), max |-> Num(0),
     orientation |-> "Horizontal", label |-> NoLabel, show_value |-> FALSE,
     value_alignment |-> "Right",
     filled_symbol |-> 1, empty_symbol |-> 1, handle_symbol |-> 1,
     show_handle |-> TRUE,
     vertical_label_position |-> "Top", vertical_value_position |-> "Bottom",
     vertical_value_alignment |-> "Center"]

RenderInit ==
    /\ phase = "none"
    /\ slider = NoSlider
    /\ area = NoArea
    /\ writes = Rendering(NoText, NoWrites)
    /\ buf = EmptyBuf

\* Slider::new: value.clamp(min, max) panics when min > max or a bound is NaN
Slider_new(v, mn, mx) ==
    /\ phase = "none"
    /\ IF ClampPanics(mn, mx)
       THEN /\ phase' = "panicked"
            /\ UNCHANGED slider
       ELSE /\ phase' = "built"
            /\ slider' = [NoSlider EXCEPT !.value = Clamp(v, mn, mx),
                                           !.min = mn, !.max = mx]
    /\ UNCHANGED <<area, writes, buf>>
    /\ UNCHANGED stateVars

\* Slider::value: the clamp panics when min > max or a bound is NaN
Slider_value(v) ==
    /\ phase = "built"
    /\ IF ClampPanics(slider.min, slider.max)
       THEN /\ phase' = "panicked"
            /\ UNCHANGED slider
            /\ last' = Call("Slider::value", [NoArgs EXCEPT !.v = v], FALSE)
       ELSE /\ UNCHANGED phase
            /\ slider' = [slider EXCEPT !.value = Clamp(v, slider.min, slider.max)]
            /\ last' = Call("Slider::value", [NoArgs EXCEPT !.v = v], TRUE)
    /\ UNCHANGED <<area, writes, buf>>
    /\ UNCHANGED <<value, min, max, step, live>>

\* Slider::min: assigns min, then clamps the value into [min, max]
Slider_min(mn) ==
    /\ phase = "built"
    /\ IF ClampPanics(mn, slider.max)
       THEN /\ phase' = "panicked"
            /\ UNCHANGED slider
            /\ last' = Call("Slider::min", [NoArgs EXCEPT !.lo = mn], FALSE)
       ELSE /\ UNCHANGED phase
            /\ slider' = [slider EXCEPT !.min = mn,
                                        !.value = Clamp(slider.value, mn, slider.max)]
            /\ last' = Call("Slider::min", [NoArgs EXCEPT !.lo = mn], TRUE)
    /\ UNCHANGED <<area, writes, buf>>
    /\ UNCHANGED <<value, min, max, step, live>>

\* Slider::max: assigns max, then clamps the value into [min, max]
Slider_max(mx) ==
    /\ phase = "built"
    /\ IF ClampPanics(slider.min, mx)
       THEN /\ phase' = "panicked"
            /\ UNCHANGED slider
            /\ last' = Call("Slider::max", [NoArgs EXCEPT !.hi = mx], FALSE)
       ELSE /\ UNCHANGED phase
            /\ slider' = [slider EXCEPT !.max = mx,
                                        !.value = Clamp(slider.value, slider.min, mx)]
            /\ last' = Call("Slider::max", [NoArgs EXCEPT !.hi = mx], TRUE)
    /\ UNCHANGED <<area, writes, buf>>
    /\ UNCHANGED <<value, min, max, step, live>>

\* Slider::orientation
orientation(o) ==
    /\ phase = "built"
    /\ slider' = [slider EXCEPT !.orientation = o]
    /\ UNCHANGED <<phase, area, writes, buf>>
    /\ UNCHANGED stateVars

\* Slider::label
label(l) ==
    /\ phase = "built"
    /\ slider' = [slider EXCEPT !.label = l]
    /\ UNCHANGED <<phase, area, writes, buf>>
    /\ UNCHANGED stateVars

\* Slider::show_value
show_value(show) ==
    /\ phase = "built"
    /\ slider' = [slider EXCEPT !.show_value = show]
    /\ UNCHANGED <<phase, area, writes, buf>>
    /\ UNCHANGED stateVars

\* Slider::value_alignment
value_alignment(al) ==
    /\ phase = "built"
    /\ slider' = [slider EXCEPT !.value_alignment = al]
    /\ UNCHANGED <<phase, area, writes, buf>>
    /\ UNCHANGED stateVars

\* Slider::filled_symbol
filled_symbol(sym) ==
    /\ phase = "built"
    /\ slider' = [slider EXCEPT !.filled_symbol = sym]
    /\ UNCHANGED <<phase, area, writes, buf>>
    /\ UNCHANGED stateVars

\* Slider::empty_symbol
empty_symbol(sym) ==
    /\ phase = "built"
    /\ slider' = [slider EXCEPT !.empty_symbol = sym]
    /\ UNCHANGED <<phase, area, writes, buf>>
    /\ UNCHANGED stateVars

\* Slider::handle_symbol
handle_symbol(sym) ==
    /\ phase = "built"
    /\ slider' = [slider EXCEPT !.handle_symbol = sym]
    /\ UNCHANGED <<phase, area, writes, buf>>
    /\ UNCHANGED stateVars

\* Slider::show_handle
show_handle(show) ==
    /\ phase = "built"
    /\ slider' = [slider EXCEPT !.show_handle = show]
    /\ UNCHANGED <<phase, area, writes, buf>>
    /\ UNCHANGED stateVars

\* Slider::vertical_label_position
vertical_label_position(pos) ==
    /\ phase = "built"
    /\ slider' = [slider EXCEPT !.vertical_label_position = pos]
    /\ UNCHANGED <<phase, area, writes, buf>>
    /\ UNCHANGED stateVars

\* Slider::vertical_value_position
vertical_value_position(pos) ==
    /\ phase = "built"
    /\ slider' = [slider EXCEPT !.vertical_value_position = pos]
    /\ UNCHANGED <<phase, area, writes, buf>>
    /\ UNCHANGED stateVars

\* Slider::vertical_value_alignment
vertical_value_alignment(al) ==
    /\ phase = "built"
    /\ slider' = [slider EXCEPT !.vertical_value_alignment = al]
    /\ UNCHANGED <<phase, area, writes, buf>>
    /\ UNCHANGED stateVars

\* Slider::from_state: Slider::new(state.value(), state.min(), state.max()),
\* for the fields f of a SliderState (min < max, so the clamp does not panic)
from_state(f) ==
    [NoSlider EXCEPT !.value = Clamp(f.value, f.min, f.max), !.min = f.min, !.max = f.max]

\* Slider::percentage (the widget's own): clamped to [0, 1]
Slider_percentage(s) ==
    IF FLt(FAbs(FSub(s.max, s.min)), Num(F64_EPSILON)) THEN PZero
    ELSE PClamp(FDiv(FSub(s.value, s.min), FSub(s.max, s.min)))

\* symbol.width().max(1)
symbol_width(sym) == IF sym > 1 THEN sym ELSE 1

\* variant: the cast rounding up
filled_columns_ceil(s, bar_width) ==
    LET p == Slider_percentage(s)
    IN  IF p.nan THEN 0 ELSE (bar_width * p.num + p.den - 1) \div p.den

\* (bar_width as f64 * percentage) as usize: the cast truncates, and
\* takes NaN to 0
filled_columns(s, bar_width) ==
    LET p == Slider_percentage(s)
    IN  IF p.nan THEN 0 ELSE (bar_width * p.num) \div p.den

\* variant: an off-by-one comparison
use_filled_le(col, fc) == col <= fc

\* "if col < filled_columns": the filled symbol, else the empty one
use_filled(col, fc) == col < fc

\* one set_string call: the string of display width w, of kind g, at (x, y)
Write(x, y, g, w) == [x |-> x, y |-> y, g |-> g, w |-> w]

\* variant: the bar loop without the overshoot check
RECURSIVE fill_walk_nopad(_, _, _, _)
fill_walk_nopad(s, a, col, current_x) ==
    IF col >= a.width THEN <<>>
    ELSE LET filled == use_filled(col, filled_columns(s, a.width))
             sym == IF filled THEN s.filled_symbol ELSE s.empty_symbol
         IN  <<Write(current_x, a.y, IF filled THEN "filled" ELSE "empty", sym)>>
                 \o fill_walk_nopad(s, a, col + symbol_width(sym),
                                    current_x + symbol_width(sym))

\* the bar loop of render_horizontal from column col on, current_x being
\* the buffer column of col: the set_string calls it makes, in order
RECURSIVE fill_walk(_, _, _, _)
fill_walk(s, a, col, current_x) ==
    IF col >= a.width THEN <<>>
    ELSE LET remaining_cols == a.width - col
             filled == use_filled(col, filled_columns(s, a.width))
             sym == IF filled THEN s.filled_symbol ELSE s.empty_symbol
         IN  IF symbol_width(sym) > remaining_cols
             THEN [i \in 1 .. remaining_cols |-> Write(current_x + i - 1, a.y, "pad", 1)]
             ELSE <<Write(current_x, a.y, IF filled THEN "filled" ELSE "empty", sym)>>
                      \o fill_walk(s, a, col + symbol_width(sym),
                                   current_x + symbol_width(sym))

\* variant: the handle loop without the overshoot check
RECURSIVE handle_walk_overshoot(_, _, _, _)
handle_walk_overshoot(s, accumulated_cols, fc, bar_width) ==
    IF accumulated_cols < fc /\ accumulated_cols < bar_width
    THEN handle_walk_overshoot(s, accumulated_cols + symbol_width(s.filled_symbol),
                               fc, bar_width)
    ELSE accumulated_cols

\* the handle loop of render_horizontal from accumulated_cols on: the
\* column offset at which it stops
RECURSIVE handle_walk(_, _, _, _)
handle_walk(s, accumulated_cols, fc, bar_width) ==
    IF accumulated_cols < fc /\ accumulated_cols < bar_width
    THEN LET sw == IF accumulated_cols < fc THEN symbol_width(s.filled_symbol)
                   ELSE symbol_width(s.empty_symbol)
         IN  IF accumulated_cols + sw > fc THEN accumulated_cols
             ELSE handle_walk(s, accumulated_cols + sw, fc, bar_width)
    ELSE accumulated_cols

\* the handle part of render_horizontal: its set_string call, if any
handle_write(s, a) ==
    IF s.show_handle /\ a.width > 0
    THEN LET handle_x == a.x + handle_walk(s, 0, filled_columns(s, a.width), a.width)
         IN  IF handle_x >= a.x /\ handle_x + symbol_width(s.handle_symbol) <= a.x + a.width
             THEN <<Write(handle_x, a.y, "handle", s.handle_symbol)>>
             ELSE <<>>
    ELSE <<>>

\* variant: the bar loop advancing by the symbol's own width, without
\* max(1), cut off once it has made more than width iterations
RECURSIVE fill_iterations_unclamped(_, _, _, _)
fill_iterations_unclamped(s, a, col, n) ==
    IF col >= a.width \/ n > a.width THEN n
    ELSE LET remaining_cols == a.width - col
             sym == IF use_filled(col, filled_columns(s, a.width))
                    THEN s.filled_symbol ELSE s.empty_symbol
         IN  IF sym > remaining_cols THEN n + 1
             ELSE fill_iterations_unclamped(s, a, col + sym, n + 1)

\* the bar loop of render_horizontal from column col on, n iterations made
\* so far: the number of iterations of "while col < bar_width" when it
\* ends; the iteration that pads the remaining columns breaks out
RECURSIVE fill_iterations(_, _, _, _)
fill_iterations(s, a, col, n) ==
    IF col >= a.width THEN n
    ELSE LET remaining_cols == a.width - col
             sym == IF use_filled(col, filled_columns(s, a.width))
                    THEN s.filled_symbol ELSE s.empty_symbol
         IN  IF symbol_width(sym) > remaining_cols THEN n + 1
             ELSE fill_iterations(s, a, col + symbol_width(sym), n + 1)

\* the handle loop of render_horizontal: the number of iterations of
\* "while accumulated_cols < filled_columns && accumulated_cols < bar_width"
RECURSIVE handle_iterations(_, _, _, _, _)
handle_iterations(s, accumulated_cols, fc, bar_width, n) ==
    IF accumulated_cols < fc /\ accumulated_cols < bar_width
    THEN LET sw == IF accumulated_cols < fc THEN symbol_width(s.filled_symbol)
                   ELSE symbol_width(s.empty_symbol)
         IN  IF accumulated_cols + sw > fc THEN n + 1
             ELSE handle_iterations(s, accumulated_cols + sw, fc, bar_width, n + 1)
    ELSE n

\* Slider::render_horizontal
render_horizontal(s, a) ==
    IF a.width < 1 THEN NoWrites
    ELSE [fill |-> fill_walk(s, a, 0, a.x), handle |-> handle_write(s, a)]

\* u16::saturating_sub
saturating_sub(a, b) == IF a > b THEN a - b ELSE 0

\* variant: the rows counted from the wrong end
filled_rows_inverted(s, bar_height) ==
    LET p == Slider_percentage(s)
    IN  IF p.nan THEN 0 ELSE bar_height - ((bar_height * p.num) \div p.den)

\* (bar_height as f64 * percentage) as usize
filled_rows(s, bar_height) ==
    LET p == Slider_percentage(s)
    IN  IF p.nan THEN 0 ELSE (bar_height * p.num) \div p.den

\* area.x + (area.width / 2): the column the vertical bar is drawn in
center_x(a) == a.x + (a.width \div 2)

\* the padding loop of render_vertical: one space per remaining row, the
\* row moving up with saturating_sub
RECURSIVE vertical_pad(_, _, _)
vertical_pad(a, remaining_rows, current_y) ==
    IF remaining_rows = 0 THEN <<>>
    ELSE IF current_y >= a.y
         THEN <<Write(center_x(a), current_y, "pad", 1)>>
                  \o vertical_pad(a, remaining_rows - 1, saturating_sub(current_y, 1))
         ELSE vertical_pad(a, remaining_rows - 1, current_y)

\* variant: the bar loop painting from the top row down
RECURSIVE vertical_walk_from_top(_, _, _, _)
vertical_walk_from_top(s, a, row, current_y) ==
    IF row >= a.height THEN <<>>
    ELSE LET filled == row < filled_rows(s, a.height)
             sym == IF filled THEN s.filled_symbol ELSE s.empty_symbol
         IN  <<Write(center_x(a), a.y + row, IF filled THEN "filled" ELSE "empty", sym)>>
                 \o vertical_walk_from_top(s, a, row + symbol_width(sym), current_y)

\* the bar loop of render_vertical from row on (row 0 is the bottom one),
\* current_y being the buffer row it writes next: a symbol takes as many
\* rows of the walk as its display width is columns
RECURSIVE vertical_walk(_, _, _, _)
vertical_walk(s, a, row, current_y) ==
    IF row >= a.height \/ current_y < a.y THEN <<>>
    ELSE LET remaining_rows == a.height - row
             filled == row < filled_rows(s, a.height)
             sym == IF filled THEN s.filled_symbol ELSE s.empty_symbol
             symbol_height == symbol_width(sym)
         IN  IF symbol_height > remaining_rows
             THEN vertical_pad(a, remaining_rows, current_y)
             ELSE <<Write(center_x(a), current_y, IF filled THEN "filled" ELSE "empty", sym)>>
                      \o vertical_walk(s, a, row + symbol_height,
                                       saturating_sub(current_y, symbol_height))

\* the handle loop of render_vertical: the row it stops at
RECURSIVE vertical_handle_walk(_, _, _, _, _)
vertical_handle_walk(s, accumulated_rows, fr, bar_height, handle_y) ==
    IF accumulated_rows < fr /\ accumulated_rows < bar_height
    THEN LET symbol_height == IF accumulated_rows < fr THEN symbol_width(s.filled_symbol)
                              ELSE symbol_width(s.empty_symbol)
         IN  IF accumulated_rows + symbol_height > fr THEN handle_y
             ELSE vertical_handle_walk(s, accumulated_rows + symbol_height, fr, bar_height,
                                       saturating_sub(handle_y, symbol_height))
    ELSE handle_y

\* the handle part of render_vertical: its set_string call, if any
vertical_handle_write(s, a) ==
    IF s.show_handle /\ a.height > 0
    THEN LET handle_y == vertical_handle_walk(s, 0, filled_rows(s, a.height), a.height,
                                              a.y + a.height - 1)
         IN  IF handle_y >= a.y /\ handle_y < a.y + a.height
             THEN <<Write(center_x(a), handle_y, "handle", s.handle_symbol)>>
             ELSE <<>>
    ELSE <<>>

\* the bar loop of render_vertical: the number of iterations of
\* "while row < bar_height" when it ends, by break or by its condition
RECURSIVE vertical_iterations(_, _, _, _, _)
vertical_iterations(s, a, row, current_y, n) ==
    IF row >= a.height THEN n
    ELSE IF current_y < a.y THEN n + 1
    ELSE LET remaining_rows == a.height - row
             sym == IF row < filled_rows(s, a.height) THEN s.filled_symbol
                    ELSE s.empty_symbol
             symbol_height == symbol_width(sym)
         IN  IF symbol_height > remaining_rows THEN n + 1
             ELSE vertical_iterations(s, a, row + symbol_height,
                                      saturating_sub(current_y, symbol_height), n + 1)

\* the handle loop of render_vertical: the number of iterations of
\* "while accumulated_rows < filled_rows && accumulated_rows < bar_height"
RECURSIVE vertical_handle_iterations(_, _, _, _, _)
vertical_handle_iterations(s, accumulated_rows, fr, bar_height, n) ==
    IF accumulated_rows < fr /\ accumulated_rows < bar_height
    THEN LET symbol_height == IF accumulated_rows < fr THEN symbol_width(s.filled_symbol)
                              ELSE symbol_width(s.empty_symbol)
         IN  IF accumulated_rows + symbol_height > fr THEN n + 1
             ELSE vertical_handle_iterations(s, accumulated_rows + symbol_height, fr,
                                             bar_height, n + 1)
    ELSE n

\* Slider::render_vertical
render_vertical(s, a) ==
    IF a.height < 1 THEN NoWrites
    ELSE [fill |-> vertical_walk(s, a, 0, a.y + a.height - 1),
          handle |-> vertical_handle_write(s, a)]

\* Buffer::set_string.  For one grapheme: a string of width 0 writes
\* nothing; a grapheme wider than what is left of the buffer row is dropped;
\* its first cell takes the symbol, the cells it hides are reset.  For a
\* label or value text: one cell per character (off is the character's
\* index), cut off at the end of the buffer row
set_string(b, wr) ==
    IF wr.g \in {"label", "value"}
    THEN [c \in DOMAIN b |->
             IF c[2] = wr.y /\ c[1] >= wr.x /\ c[1] < wr.x + wr.w
             THEN [g |-> wr.g, off |-> c[1] - wr.x]
             ELSE b[c]]
    ELSE IF wr.w = 0 \/ BufW - wr.x < wr.w THEN b
    ELSE [c \in DOMAIN b |->
             IF c[2] = wr.y /\ c[1] >= wr.x /\ c[1] < wr.x + wr.w
             THEN [g |-> wr.g, off |-> c[1] - wr.x]
             ELSE b[c]]

\* the buffer after the set_string calls ws, made in order
RECURSIVE apply_writes(_, _)
apply_writes(b, ws) ==
    IF ws = <<>> THEN b ELSE apply_writes(set_string(b, Head(ws)), Tail(ws))

\* the foreground colour a set_string call carries: the bar's glyphs and the
\* handle come with Style::default().fg(color), pad spaces and text with
\* Style::default(), which sets no colour
fg_of(wr) ==
    CASE wr.g = "filled" -> "filled_color"
      [] wr.g = "empty" -> "empty_color"
      [] wr.g = "handle" -> "handle_color"
      [] OTHER -> "unset"

\* the foreground colours of a buffer nothing was written to
ResetColors == [c \in (0 .. BufW - 1) \X (0 .. BufH - 1) |-> "reset"]

\* variant: a style without a colour toggling the cell's colour instead of
\* leaving it
set_style_clearing(f, wr) ==
    [c \in DOMAIN f |->
        IF c[2] = wr.y /\ c[1] >= wr.x /\ c[1] < wr.x + wr.w
        THEN (IF fg_of(wr) = "unset" THEN (IF f[c] = "reset" THEN "unset" ELSE "reset")
              ELSE fg_of(wr))
        ELSE f[c]]

\* what Buffer::set_string does to the foreground colours: the style is
\* patched onto each cell that takes a symbol (a style without a colour
\* leaves the cell's colour as it was), the cells a wide grapheme hides are
\* reset
set_style(f, wr) ==
    IF wr.g \notin {"label", "value"} /\ (wr.w = 0 \/ BufW - wr.x < wr.w) THEN f
    ELSE [c \in DOMAIN f |->
             IF c[2] = wr.y /\ c[1] >= wr.x /\ c[1] < wr.x + wr.w
             THEN (IF wr.g \notin {"label", "value"} /\ c[1] > wr.x THEN "reset"
                   ELSE IF fg_of(wr) = "unset" THEN f[c] ELSE fg_of(wr))
             ELSE f[c]]

\* the foreground colours after the set_string calls ws, made in order
RECURSIVE apply_styles(_, _)
apply_styles(f, ws) ==
    IF ws = <<>> THEN f ELSE apply_styles(set_style(f, Head(ws)), Tail(ws))

(***************************************************************************)
(* Label and value text.  A label is kept as its display width; it stands  *)
(* for that many one-column characters.  Coordinates are u16: a sum that    *)
(* passes 65535 panics in a build with overflow checks and wraps in one    *)
(* without, so the operators below return the wrapped sum together with a  *)
(* flag ovf telling that some sum overflowed.                              *)
(***************************************************************************)
\* u16 holds 0 .. U16 - 1
U16 == 65536

\* u16 + u16 without overflow checks
wrapping_add(a, b) == (a + b) % U16

\* the longest of the short labels
MaxLabel == 9

\* label widths: an empty label, short ones, and two that fill u16
LabelInputs == {0, 4, MaxLabel, U16 - 3, U16 - 1}

AlignmentInputs == {"Left", "Center", "Right"}

RECURSIVE digits(_)
\* the number of decimal digits of k >= 0
digits(k) == IF k < 10 THEN 1 ELSE 1 + digits(k \div 10)

\* a / b rounded to the nearest integer, ties to even (a >= 0, b > 0)
round_div(a, b) ==
    LET q == a \div b
        r == a % b
    IN  IF 2 * r > b \/ (2 * r = b /\ q % 2 = 1) THEN q + 1 ELSE q

\* format!("{:.1}", v).len() for prec = 1 and format!("{:.0}", v).len() for
\* prec = 0: sign, integer digits, and ".d" when prec = 1; "NaN" is 3 long
formatted_len(v, prec) ==
    IF v.nan THEN 3
    ELSE LET mag == IF v.n < 0 THEN 0 - v.n ELSE v.n
             scaled == round_div(mag * (IF prec = 1 THEN 10 ELSE 1), ONE)
         IN  (IF v.n < 0 THEN 1 ELSE 0)
                + digits(IF prec = 1 THEN scaled \div 10 ELSE scaled)
                + (IF prec = 1 THEN 2 ELSE 0)

\* Slider::is_within_buffer
is_within_buffer(x, y) ==
    /\ x >= BufArea.x /\ x < BufArea.x + BufArea.width
    /\ y >= BufArea.y /\ y < BufArea.y + BufArea.height

\* Slider::calculate_label_info: Option<(x, width)>
calculate_label_info(s, a) == [some |-> s.label # NoLabel, x |-> a.x, w |-> s.label]

\* Slider::calculate_horizontal_value_position
calculate_horizontal_value_position(s, a, value_width) ==
    CASE s.value_alignment = "Left" -> a.x
      [] s.value_alignment = "Center" -> a.x + (saturating_sub(a.width, value_width) \div 2)
      [] s.value_alignment = "Right" -> a.x + saturating_sub(a.width, value_width)

\* Slider::calculate_value_info(area, true): Option<(x, width, text)>
calculate_value_info(s, a) ==
    IF ~s.show_value THEN [some |-> FALSE, x |-> 0, w |-> 0, ovf |-> FALSE]
    ELSE LET value_width == formatted_len(s.value, 1)
         IN  IF s.value_alignment = "Left" /\ s.label # NoLabel
             THEN [some |-> TRUE, w |-> value_width,
                   x |-> wrapping_add(wrapping_add(a.x, s.label), 2),
                   ovf |-> a.x + s.label + 2 >= U16]
             ELSE [some |-> TRUE, w |-> value_width,
                   x |-> calculate_horizontal_value_position(s, a, value_width),
                   ovf |-> FALSE]

\* Slider::has_overlap
has_overlap(label_x, label_w, value_x, value_w) ==
    LET label_end == wrapping_add(label_x, label_w)
        value_end == wrapping_add(value_x, value_w)
    IN  [overlap |-> ~(label_end <= value_x \/ value_end <= label_x),
         ovf |-> label_x + label_w >= U16 \/ value_x + value_w >= U16]

\* variant: the value moved to the left edge
adjust_for_overlap_left(s, a, label_x, label_w, value_w) ==
    [label_x |-> label_x, value_x |-> a.x, ovf |-> FALSE]

\* Slider::adjust_for_overlap
adjust_for_overlap(s, a, label_x, label_w, value_w) ==
    IF s.value_alignment \in {"Center", "Right"}
    THEN [label_x |-> label_x, value_x |-> a.x + saturating_sub(a.width, value_w),
          ovf |-> FALSE]
    ELSE LET label_end == wrapping_add(label_x, label_w)
             value_end == wrapping_add(wrapping_add(label_end, 2), value_w)
         IN  [label_x |-> label_x,
              value_x |-> IF value_end <= a.x + a.width THEN wrapping_add(label_end, 2)
                          ELSE a.x + saturating_sub(a.width, value_w),
              ovf |-> label_x + label_w >= U16 \/ label_end + 2 + value_w >= U16]

\* Slider::resolve_positions(area, true, label_info, value_info)
resolve_positions(s, a, label_info, value_info) ==
    IF label_info.some /\ value_info.some
    THEN LET h == has_overlap(label_info.x, label_info.w, value_info.x, value_info.w)
             adj == adjust_for_overlap(s, a, label_info.x, label_info.w, value_info.w)
         IN  IF h.overlap
             THEN [label_x |-> adj.label_x, value_x |-> adj.value_x, ovf |-> h.ovf \/ adj.ovf]
             ELSE [label_x |-> label_info.x, value_x |-> value_info.x, ovf |-> h.ovf]
    ELSE [label_x |-> IF label_info.some THEN label_info.x ELSE a.x,
          value_x |-> IF value_info.some THEN value_info.x ELSE a.x,
          ovf |-> FALSE]

\* variant: the label put on the bar's row
render_label_on_bar(s, a, label_x) ==
    IF s.label # NoLabel /\ is_within_buffer(label_x, a.y)
    THEN <<Write(label_x, a.y, "label", s.label)>>
    ELSE <<>>

\* Slider::render_label(buf, area, true, label_x): its set_string call, if any
render_label(s, a, label_x) ==
    IF s.label # NoLabel /\ is_within_buffer(label_x, saturating_sub(a.y, 1))
    THEN <<Write(label_x, saturating_sub(a.y, 1), "label", s.label)>>
    ELSE <<>>

\* Slider::render_value(buf, area, true, value_x, value_info): its
\* set_string call, if any
render_value(s, a, value_x, value_info) ==
    IF value_info.some /\ is_within_buffer(value_x, saturating_sub(a.y, 1))
    THEN <<Write(value_x, saturating_sub(a.y, 1), "value", value_info.w)>>
    ELSE <<>>

\* Slider::render_label_and_value (horizontal sliders)
render_label_and_value(s, a) ==
    LET label_info == calculate_label_info(s, a)
        value_info == calculate_value_info(s, a)
        pos == resolve_positions(s, a, label_info, value_info)
    IN  [label |-> render_label(s, a, pos.label_x),
         value |-> render_value(s, a, pos.value_x, value_info),
         ovf |-> value_info.ovf \/ pos.ovf]

\* Slider::render_vertical_label_and_value
render_vertical_label_and_value(s, a) ==
    LET label_y == IF s.vertical_label_position = "Top" THEN saturating_sub(a.y, 1)
                   ELSE a.y + a.height
        label_x == a.x + (saturating_sub(a.width, s.label) \div 2)
        value_width == formatted_len(s.value, 0)
        value_y == CASE s.vertical_value_position = "Top" -> saturating_sub(a.y, 1)
                     [] s.vertical_value_position = "Middle" -> a.y + (a.height \div 2)
                     [] s.vertical_value_position = "Bottom" -> a.y + a.height
        value_x == CASE s.vertical_value_alignment = "Left" -> a.x
                     [] s.vertical_value_alignment = "Center" ->
                           a.x + (saturating_sub(a.width, value_width) \div 2)
                     [] s.vertical_value_alignment = "Right" ->
                           a.x + saturating_sub(a.width, value_width)
    IN  [label |-> IF s.label # NoLabel /\ is_within_buffer(label_x, label_y)
                   THEN <<Write(label_x, label_y, "label", s.label)>> ELSE <<>>,
         value |-> IF s.show_value /\ is_within_buffer(value_x, value_y)
                   THEN <<Write(value_x, value_y, "value", value_width)>> ELSE <<>>,
         ovf |-> FALSE]

\* the text part of Widget::render: by orientation
render_text(s, a) ==
    IF s.orientation = "Horizontal" THEN render_label_and_value(s, a)
    ELSE render_vertical_label_and_value(s, a)

\* the bar part of Widget::render: by orientation
render_bar(s, a) ==
    IF s.orientation = "Horizontal" THEN render_horizontal(s, a) ELSE render_vertical(s, a)

\* the set_string calls ws in the order render makes them
InOrder(ws) == ws.label \o ws.value \o ws.fill \o ws.handle

\* variant: render without the early return
Widget_render_always(s, a) ==
    [ovf |-> render_text(s, a).ovf,
     writes |-> Rendering(render_text(s, a), render_bar(s, a))]

\* what Widget::render computes for slider s and region a: nothing for a
\* region without cells, else the label and value, then the bar
Widget_render(s, a) ==
    IF a.width = 0 \/ a.height = 0
    THEN [ovf |-> FALSE, writes |-> Rendering(NoText, NoWrites)]
    ELSE [ovf |-> render_text(s, a).ovf,
          writes |-> Rendering(render_text(s, a), render_bar(s, a))]

\* the builds of the crate: with overflow checks (debug) and without
BuildInputs == {"debug", "release"}

\* Widget::render for Slider (no block).  The label and value come first,
\* then the bar.  When a u16 sum of the placement overflows, a build with
\* overflow checks panics before anything is written
render(a, build) ==
    /\ phase = "built"
    /\ area' = a
    /\ LET r == Widget_render(slider, a)
       IN  IF r.ovf /\ build = "debug"
           THEN /\ phase' = "render panicked"
                /\ writes' = Rendering(NoText, NoWrites)
                /\ buf' = buf
           ELSE /\ phase' = "rendered"
                /\ writes' = r.writes
                /\ buf' = apply_writes(buf, InOrder(r.writes))
    /\ UNCHANGED slider
    /\ UNCHANGED stateVars

Init == StateInit /\ RenderInit

Next ==
    \/ \E v \in ValueInputs, mn \in BoundInputs, mx \in BoundInputs : new(v, mn, mx)
    \/ \E v \in ValueInputs, mn \in BoundInputs, mx \in BoundInputs, s \in StepInputs :
          with_step(v, mn, mx, s)
    \/ \E v \in ValueInputs : set_value(v)
    \/ \E mn \in BoundInputs : set_min(mn)
    \/ \E mx \in BoundInputs : set_max(mx)
    \/ \E p \in PctInputs : set_percentage(p)
    \/ \E s \in StepInputs : increase(s)
    \/ \E s \in StepInputs : decrease(s)
    \/ step_up
    \/ step_down
    \/ \E s \in StepInputs : set_step(s)
    \/ \E pos \in PosInputs, len \in LenInputs : set_from_position(pos, len)

Spec == Init /\ [][Next]_vars

RenderNext ==
    \/ \E v \in SliderValueInputs, mn \in SliderBoundInputs, mx \in SliderBoundInputs :
          Slider_new(v, mn, mx)
    \/ \E o \in {"Horizontal", "Vertical"} : orientation(o)
    \/ \E sym \in SymbolInputs : filled_symbol(sym)
    \/ \E sym \in SymbolInputs : empty_symbol(sym)
    \/ \E sym \in SymbolInputs : handle_symbol(sym)
    \/ \E show \in BOOLEAN : show_handle(show)
    \/ \E a \in AreaInputs, build \in BuildInputs : render(a, build)

RenderSpec == Init /\ [][RenderNext]_vars

\* the chains of value, min and max calls on a new Slider
BuilderNext ==
    \/ \E v \in SliderValueInputs, mn \in SliderBoundInputs, mx \in SliderBoundInputs :
          Slider_new(v, mn, mx)
    \/ \E v \in ValueInputs : Slider_value(v)
    \/ \E mn \in BoundInputs : Slider_min(mn)
    \/ \E mx \in BoundInputs : Slider_max(mx)

BuilderSpec == Init /\ [][BuilderNext]_vars

\* the values a slider with text is built with: 0.0 and 10.0
TextValueInputs == {Num(0), Num(10 * ONE)}

\* the regions a slider with text is rendered into
TextAreaInputs ==
    {a \in AreaInputs : a.width \in {0, TallWidth, 5, MaxWidth} /\ a.height \in {0, 1, 3}}

\* the label, the value text and their placement, over a bar of filled
\* cells (value 10.0) or of cells of the chosen empty symbol (value 0.0)
TextNext ==
    \/ \E v \in TextValueInputs : Slider_new(v, Num(0), Num(10 * ONE))
    \/ \E o \in {"Horizontal", "Vertical"} : orientation(o)
    \/ \E l \in LabelInputs : label(l)
    \/ \E show \in BOOLEAN : show_value(show)
    \/ \E al \in AlignmentInputs : value_alignment(al)
    \/ \E pos \in {"Top", "Bottom"} : vertical_label_position(pos)
    \/ \E pos \in {"Top", "Middle", "Bottom"} : vertical_value_position(pos)
    \/ \E al \in AlignmentInputs : vertical_value_alignment(al)
    \/ \E sym \in SymbolInputs : empty_symbol(sym)
    \/ \E a \in TextAreaInputs, build \in BuildInputs : render(a, build)

TextSpec == Init /\ [][TextNext]_vars

(***************************************************************************)
(* Properties of SliderState.                                              *)
(***************************************************************************)
Did(op) == live /\ last.op = op /\ last.ok

Rejected(op) == last.op = op /\ ~last.ok

\* C1: after any sequence of SliderState operations that did not fail,
\* min <= value <= max.
C1_ValueWithinBounds == live => (FLe(min, value) /\ FLe(value, max))

\* C2: min < max in every reachable SliderState; new and with_step fail
\* when min >= max, set_min(m) fails when m >= max, set_max(m) fails when
\* m <= min, and no other operation changes min or max.
C2_BoundsOrdered ==
    /\ live => FLt(min, max)
    /\ (last.op \in {"new", "with_step"} /\ FGe(last.args.lo, last.args.hi)) => ~last.ok
    /\ (last.op = "set_min" /\ FGe(last.args.lo, last.pre.max)) => ~last.ok
    /\ (last.op = "set_max" /\ FLe(last.args.hi, last.pre.min)) => ~last.ok
    /\ (live /\ last.op \notin {"new", "with_step", "set_min", "set_max"})
          => (min = last.pre.min /\ max = last.pre.max)

C2_Witness == live /\ Rejected("set_min") /\ FGe(last.args.lo, last.pre.max)

\* C3: new(v, min, max) and set_value(v) store exactly the clamp of v: min
\* when v < min, max when v > max, v itself otherwise; set_value always
\* succeeds.
C3_StoresClamp ==
    /\ (live /\ last.op = "set_value") => last.ok
    /\ (Did("new") \/ Did("set_value")) =>
          /\ FLt(last.args.v, min) => value = min
          /\ FGt(last.args.v, max) => value = max
          /\ (~FLt(last.args.v, min) /\ ~FGt(last.args.v, max)) => value = last.args.v

C3_Witness == Did("set_value") /\ FGt(last.args.v, max) /\ value = max

C5_StepPositive ==
    /\ live => FGt(step, Num(0))
    /\ Did("new") => step = Num(ONE)
    /\ (last.op \in {"with_step", "set_step"} /\ FLe(last.args.st, Num(0))) => ~last.ok
    /\ (live /\ last.op \notin {"new", "with_step", "set_step"}) => step = last.pre.step

C5_Witness == live /\ Rejected("set_step") /\ FLe(last.args.st, Num(0))

\* C6: step_up() sets value to min(value + step, max) and step_down() to
\* max(value - step, min), step being the stored field; at max step_up
\* changes nothing and at min step_down changes nothing.  (Stated of a
\* state whose value is a number.)
C6_StepUpDown ==
    /\ (Did("step_up") /\ ~last.pre.value.nan) =>
          /\ value = (IF last.pre.value.n + step.n < max.n
                      THEN Num(last.pre.value.n + step.n) ELSE max)
          /\ last.pre.value = max => value = last.pre.value
    /\ (Did("step_down") /\ ~last.pre.value.nan) =>
          /\ value = (IF last.pre.value.n - step.n > min.n
                      THEN Num(last.pre.value.n - step.n) ELSE min)
          /\ last.pre.value = min => value = last.pre.value
    /\ (live /\ last.op \in {"step_up", "step_down"}) => last.ok

C6_Witness ==
    /\ Did("step_up")
    /\ step = Num(2)
    /\ value = Num(last.pre.value.n + 2)
    /\ FLt(value, max)

\* C7: a successful set_min(m) sets min to m and value to max(old value, m);
\* a successful set_max(m) sets max to m and value to min(old value, m);
\* the other bound and step are unchanged.  (Stated of a state whose value
\* is a number.)
C7_SetBoundReclamps ==
    /\ (Did("set_min") /\ ~last.pre.value.nan) =>
          /\ min = last.args.lo
          /\ value = (IF last.pre.value.n > last.args.lo.n THEN last.pre.value ELSE last.args.lo)
          /\ max = last.pre.max /\ step = last.pre.step
    /\ (Did("set_max") /\ ~last.pre.value.nan) =>
          /\ max = last.args.hi
          /\ value = (IF last.pre.value.n < last.args.hi.n THEN last.pre.value ELSE last.args.hi)
          /\ min = last.pre.min /\ step = last.pre.step

C7_Witness ==
    /\ Did("set_min")
    /\ FLt(last.pre.value, last.args.lo)
    /\ value = last.args.lo
    /\ min = last.args.lo


(***************************************************************************)
(* Properties of the horizontal bar.                                       *)
(***************************************************************************)
\* a horizontal render into a region of at least one cell has happened
Rendered ==
    /\ phase = "rendered" /\ slider.orientation = "Horizontal"
    /\ area.width >= 1 /\ area.height >= 1

\* the buffer as the bar loop leaves it, before the handle is laid over it
BarBuf == apply_writes(EmptyBuf, writes.fill)

\* the columns of the region
Columns == area.x .. (area.x + area.width - 1)

RECURSIVE SumW(_)
SumW(ws) == IF ws = <<>> THEN 0 ELSE Head(ws).w + SumW(Tail(ws))

\* C8: for any width >= 1, any percentage and any filled/empty symbols of
\* display width >= 1, the horizontal fill walk covers every column of the
\* region exactly once: glyph widths plus pad spaces sum to width, and no
\* glyph is written partially or past the right edge.
C8_ExactWidthFill ==
    (Rendered /\ slider.filled_symbol >= 1 /\ slider.empty_symbol >= 1) =>
        /\ SumW(writes.fill) = area.width
        /\ \A i \in DOMAIN writes.fill :
              /\ writes.fill[i].x >= area.x
              /\ writes.fill[i].x + writes.fill[i].w <= area.x + area.width
              /\ \A c \in writes.fill[i].x .. (writes.fill[i].x + writes.fill[i].w - 1) :
                    BarBuf[<<c, area.y>>] = [g |-> writes.fill[i].g, off |-> c - writes.fill[i].x]
        /\ \A c \in Columns :
              Cardinality({i \in DOMAIN writes.fill :
                              writes.fill[i].x <= c /\ c < writes.fill[i].x + writes.fill[i].w}) = 1

C8_Witness ==
    /\ Rendered
    /\ area.width = 7
    /\ slider.filled_symbol = 2 /\ slider.empty_symbol = 2
    /\ filled_columns(slider, area.width) = 3
    /\ Len(writes.fill) = 4
    /\ writes.fill[2] = Write(area.x + 2, area.y, "filled", 2)
    /\ writes.fill[4] = Write(area.x + 6, area.y, "pad", 1)

\* C9: with single-column filled and empty symbols, a horizontal render
\* into a region of width w at percentage p paints exactly floor(w * p)
\* filled columns at the left followed by w - floor(w * p) empty columns;
\* with the handle hidden that is the whole bar row of the buffer.
C9_FloorSplit ==
    (Rendered /\ slider.filled_symbol = 1 /\ slider.empty_symbol = 1
              /\ ~Slider_percentage(slider).nan) =>
        LET p == Slider_percentage(slider)
            floor == (area.width * p.num) \div p.den
            Kind(c) == IF c - area.x < floor THEN "filled" ELSE "empty"
        IN  /\ writes.fill = [i \in 1 .. area.width |->
                                 Write(area.x + i - 1, area.y, Kind(area.x + i - 1), 1)]
            /\ \A c \in Columns : BarBuf[<<c, area.y>>] = [g |-> Kind(c), off |-> 0]
            /\ ~slider.show_handle => buf = BarBuf

C9_Witness ==
    /\ Rendered
    /\ area.width = 10
    /\ slider.filled_symbol = 1 /\ slider.empty_symbol = 1
    /\ ~slider.show_handle
    /\ PEq(Slider_percentage(slider), Pct(1, 2))
    /\ \A c \in Columns : buf[<<c, area.y>>].g = (IF c - area.x < 5 THEN "filled" ELSE "empty")

\* C10: at percentage 0.0 the horizontal bar has zero filled columns (the
\* fill paints only empty symbols and pad) and the handle, if shown, is at
\* position 0, the region's first column.
C10_ZeroPercent ==
    (Rendered /\ PEq(Slider_percentage(slider), PZero)) =>
        /\ \A i \in DOMAIN writes.fill : writes.fill[i].g \in {"empty", "pad"}
        /\ \A c \in Columns : BarBuf[<<c, area.y>>].g # "filled"
        /\ \A i \in DOMAIN writes.handle : writes.handle[i].x = area.x
        /\ (slider.show_handle /\ symbol_width(slider.handle_symbol) <= area.width)
              => writes.handle = <<Write(area.x, area.y, "handle", slider.handle_symbol)>>
        /\ ~slider.show_handle => writes.handle = <<>>

C10_Witness ==
    /\ Rendered
    /\ FLt(slider.min, slider.max) /\ slider.value = slider.min
    /\ slider.show_handle
    /\ area.width >= 2
    /\ buf[<<area.x, area.y>>] = [g |-> "handle", off |-> 0]
    /\ buf[<<area.x + 1, area.y>>].g = "empty"

\* C11: at percentage 1.0 filled_columns equals width and the horizontal
\* fill paints no glyph but the filled symbol (and pad); the handle, if
\* shown, is drawn at the bar's last position, and is omitted only when the
\* handle glyph does not fit the region.
C11_FullPercent ==
    (Rendered /\ PEq(Slider_percentage(slider), POne)) =>
        /\ filled_columns(slider, area.width) = area.width
        /\ \A i \in DOMAIN writes.fill : writes.fill[i].g \in {"filled", "pad"}
        /\ (slider.show_handle /\ symbol_width(slider.handle_symbol) <= area.width)
              => writes.handle =
                    <<Write(area.x + area.width - symbol_width(slider.handle_symbol),
                            area.y, "handle", slider.handle_symbol)>>
        /\ ~slider.show_handle => writes.handle = <<>>

\* C14: whenever the horizontal handle is drawn it marks the exact
\* filled/empty boundary of the painted bar: every column left of the
\* handle's column is covered by a filled glyph, and the handle's column and
\* every column right of it were painted by the fill as empty glyphs or
\* padding, whatever the symbols' widths.
C14_HandleAtBoundary ==
    (Rendered /\ writes.handle # <<>>) =>
        \A c \in Columns :
            /\ c < writes.handle[1].x => BarBuf[<<c, area.y>>].g = "filled"
            /\ c >= writes.handle[1].x => BarBuf[<<c, area.y>>].g \in {"empty", "pad"}

(***************************************************************************)
(* Properties of the bar in both orientations.                             *)
(***************************************************************************)
\* a render into a region of at least one cell has happened
RenderedAny == phase = "rendered" /\ area.width >= 1 /\ area.height >= 1

\* the cells of the bar's axis: the bar row of a horizontal slider, the bar
\* column of a vertical one
AxisCells(s, a) ==
    IF s.orientation = "Horizontal"
    THEN {<<c, a.y>> : c \in a.x .. (a.x + a.width - 1)}
    ELSE {<<center_x(a), r>> : r \in a.y .. (a.y + a.height - 1)}

\* how many cells of the axis the set_string calls ws leave covered by the
\* filled symbol
PaintedFilled(s, a, ws) ==
    Cardinality({c \in AxisCells(s, a) : apply_writes(EmptyBuf, ws)[c].g = "filled"})

\* the extent of the bar: width of a horizontal one, height of a vertical one
Extent(s, a) == IF s.orientation = "Horizontal" THEN a.width ELSE a.height

\* filled_columns or filled_rows, by orientation
FilledCount(s, a) ==
    IF s.orientation = "Horizontal" THEN filled_columns(s, a.width)
    ELSE filled_rows(s, a.height)

\* the slider with another value, as Slider::value would set it
WithValue(s, v) == [s EXCEPT !.value = Clamp(v, s.min, s.max)]

\* C12: for a fixed width (height) and fixed symbols, a slider of greater
\* or equal percentage has at least as many filled_columns (filled_rows),
\* and the renderer paints at least as many columns (rows) with the filled
\* symbol, before and after the handle is laid over the bar.
C12_Monotone ==
    RenderedAny =>
        \A v \in SliderValueInputs :
            LET other == WithValue(slider, v)
                ws == render_bar(other, area)
            IN  PLe(Slider_percentage(slider), Slider_percentage(other)) =>
                    /\ FilledCount(slider, area) <= FilledCount(other, area)
                    /\ PaintedFilled(slider, area, writes.fill)
                          <= PaintedFilled(other, area, ws.fill)
                    /\ PaintedFilled(slider, area, writes.fill \o writes.handle)
                          <= PaintedFilled(other, area, ws.fill \o ws.handle)

C12_Witness ==
    /\ RenderedAny
    /\ slider.orientation = "Vertical"
    /\ area.height = 5
    /\ slider.filled_symbol = 2
    /\ filled_rows(slider, area.height) = 2
    /\ PaintedFilled(slider, area, writes.fill) = 1
    /\ \E v \in SliderValueInputs :
          /\ PLt(Slider_percentage(slider), Slider_percentage(WithValue(slider, v)))
          /\ filled_rows(WithValue(slider, v), area.height) = 3
          /\ PaintedFilled(slider, area, render_bar(WithValue(slider, v), area).fill) = 2

(***************************************************************************)
(* Properties of a whole render.                                           *)
(***************************************************************************)
\* the foreground colours of the buffer after the render
Colors == apply_styles(ResetColors, InOrder(writes))

InArea(c) ==
    /\ c[1] >= area.x /\ c[1] < area.x + area.width
    /\ c[2] >= area.y /\ c[2] < area.y + area.height

\* the cells of the buffer the set_string call wr covers
Covers(wr, c) == c[2] = wr.y /\ c[1] >= wr.x /\ c[1] < wr.x + wr.w

\* the set_string calls of the render, as a set
Calls(ws) == {ws[i] : i \in DOMAIN ws}

C16_RenderNeverFails ==
    /\ phase # "render panicked"
    /\ phase = "rendered" =>
          /\ ~Widget_render(slider, area).ovf
          /\ \A wr \in Calls(writes.label \o writes.value) : is_within_buffer(wr.x, wr.y)

\* C17: when the target region has width 0 or height 0, render writes no
\* label, value, bar or handle cell (and does not fail).
C17_EmptyAreaNoWrites ==
    (phase \in {"rendered", "render panicked"} /\ (area.width = 0 \/ area.height = 0)) =>
        /\ phase = "rendered"
        /\ writes = Rendering(NoText, NoWrites)
        /\ buf = EmptyBuf

C17_Witness ==
    /\ phase = "rendered"
    /\ area.width = 0 /\ area.height = 1 /\ area.y = 1
    /\ slider.label = 4 /\ slider.show_value
    /\ buf = EmptyBuf

\* C18: for any height >= 1, any percentage and any filled and empty
\* symbols, wide ones included, the vertical renderer paints the full
\* height: every row of the region receives a bar glyph or a pad space in
\* the bar column.
C18_FullHeight ==
    (RenderedAny /\ slider.orientation = "Vertical") =>
        \A r \in area.y .. (area.y + area.height - 1) :
            \E wr \in Calls(writes.fill) : wr.y = r /\ wr.x = center_x(area)

(***************************************************************************)
(* Properties of the label and value placement.                            *)
(***************************************************************************)
\* a horizontal render of a slider with a label and a shown value
RenderedBoth ==
    /\ phase = "rendered" /\ slider.orientation = "Horizontal"
    /\ area.width >= 1 /\ area.height >= 1
    /\ slider.label # NoLabel /\ slider.show_value

\* the positions render_label_and_value chose
Chosen ==
    resolve_positions(slider, area, calculate_label_info(slider, area),
                      calculate_value_info(slider, area))

\* the display width of the value text of a horizontal slider
ValueW == calculate_value_info(slider, area).w

\* the spans [label_x, label_x + label_w) and [value_x, value_x + value_w)
\* have no column in common
Disjoint ==
    \/ Chosen.label_x + slider.label <= Chosen.value_x
    \/ Chosen.value_x + ValueW <= Chosen.label_x

C20_BuilderChain ==
    last.op \in {"Slider::value", "Slider::min", "Slider::max"} =>
        /\ last.ok
        /\ phase = "built"
        /\ last.op = "Slider::min" => slider.min = last.args.lo
        /\ last.op = "Slider::max" => slider.max = last.args.hi
        /\ FLe(slider.min, slider.value) /\ FLe(slider.value, slider.max)

(***************************************************************************)
(* Properties of the handle.                                               *)
(***************************************************************************)
\* the largest multiple of the filled symbol's width (taken as at least 1)
\* that is at most filled_columns
LastBoundary ==
    (filled_columns(slider, area.width) \div symbol_width(slider.filled_symbol))
        * symbol_width(slider.filled_symbol)

\* C21: the horizontal handle's column offset is the last whole
\* filled-symbol boundary at or before filled_columns; the handle is written
\* there only if offset + handle_width <= width, and otherwise no handle
\* cell is written and the fill is left as painted.
C21_HandleOffset ==
    Rendered =>
        IF slider.show_handle
              /\ LastBoundary + symbol_width(slider.handle_symbol) <= area.width
        THEN writes.handle =
                <<Write(area.x + LastBoundary, area.y, "handle", slider.handle_symbol)>>
        ELSE writes.handle = <<>> /\ buf = BarBuf

C21_Witness ==
    /\ Rendered
    /\ slider.show_handle
    /\ area.width = 7
    /\ slider.filled_symbol = 2
    /\ filled_columns(slider, area.width) = 5
    /\ LastBoundary = 4
    /\ buf[<<area.x + 4, area.y>>] = [g |-> "handle", off |-> 0]
    /\ buf[<<area.x + 2, area.y>>] = [g |-> "filled", off |-> 0]

(***************************************************************************)
(* Properties of the vertical bar.                                         *)
(***************************************************************************)
\* a vertical render into a region of at least one cell has happened
RenderedVertical ==
    /\ phase = "rendered" /\ slider.orientation = "Vertical"
    /\ area.width >= 1 /\ area.height >= 1

\* the buffer row of the row-th row of the region, counted from its bottom
RowFromBottom(row) == area.y + area.height - 1 - row

\* C22: in vertical mode with single-cell symbols, filled_rows is
\* floor(height * percentage); counting rows from the bottom of the region,
\* rows 0 .. filled_rows - 1 get the filled symbol and colour and rows
\* filled_rows .. height - 1 the empty symbol and colour, all in the single
\* column x + width / 2.
C22_VerticalSplit ==
    (RenderedVertical /\ slider.filled_symbol = 1 /\ slider.empty_symbol = 1
                      /\ ~Slider_percentage(slider).nan) =>
        LET p == Slider_percentage(slider)
            floor == (area.height * p.num) \div p.den
            col == area.x + (area.width \div 2)
            Kind(row) == IF row < floor THEN "filled" ELSE "empty"
            Color(row) == IF row < floor THEN "filled_color" ELSE "empty_color"
        IN  /\ filled_rows(slider, area.height) = floor
            /\ writes.fill = [i \in 1 .. area.height |->
                                 Write(col, RowFromBottom(i - 1), Kind(i - 1), 1)]
            /\ \A row \in 0 .. (area.height - 1) :
                  /\ BarBuf[<<col, RowFromBottom(row)>>] = [g |-> Kind(row), off |-> 0]
                  /\ apply_styles(ResetColors, writes.fill)[<<col, RowFromBottom(row)>>]
                        = Color(row)
            /\ \A c \in DOMAIN BarBuf :
                  (c[1] # col \/ c[2] < area.y \/ c[2] >= area.y + area.height)
                      => BarBuf[c] = Blank

C22_Witness ==
    /\ RenderedVertical
    /\ slider.filled_symbol = 1 /\ slider.empty_symbol = 1
    /\ ~slider.show_handle
    /\ area.height = 4 /\ area.width = 3 /\ area.y = 1
    /\ PEq(Slider_percentage(slider), Pct(1, 2))
    /\ buf[<<area.x + 1, 4>>].g = "filled" /\ buf[<<area.x + 1, 3>>].g = "filled"
    /\ buf[<<area.x + 1, 2>>].g = "empty" /\ buf[<<area.x + 1, 1>>].g = "empty"

\* the handle call of a vertical render of the slider into the region moved
\* to origin row y, as rows above that region's bottom row
HandleRowsAt(y) ==
    LET a == [area EXCEPT !.y = y]
        ws == render_vertical(slider, a).handle
    IN  {a.y + a.height - 1 - ws[i].y : i \in DOMAIN ws}

\* C23: in vertical mode the handle is written on the filled/empty boundary
\* row, the row filled_rows above the region's bottom row, and when that
\* row lies outside the region (percentage 1.0) no handle is written; the
\* row chosen relative to the region, and whether the handle is drawn, are
\* the same for every region origin y.
C23_VerticalHandle ==
    RenderedVertical =>
        /\ IF slider.show_handle /\ filled_rows(slider, area.height) < area.height
           THEN writes.handle =
                   <<Write(center_x(area), RowFromBottom(filled_rows(slider, area.height)),
                           "handle", slider.handle_symbol)>>
           ELSE writes.handle = <<>>
        /\ \A y \in 0 .. (BufH - area.height) : HandleRowsAt(y) = HandleRowsAt(area.y)

\* a horizontal render into a region with at least one cell
RenderedHorizontal ==
    /\ phase = "rendered" /\ slider.orientation = "Horizontal"
    /\ area.width >= 1 /\ area.height >= 1

\* C24: in a horizontal layout the label is written starting at the region's
\* left column on the row immediately above the bar row, and the value on
\* that same row at the column its alignment gives (Center:
\* x + (width - value_w) / 2, Right: x + width - value_w), for every region
\* position.
C24_TextRowAbove ==
    RenderedHorizontal =>
        /\ slider.label # NoLabel =>
              writes.label = <<Write(area.x, area.y - 1, "label", slider.label)>>
        /\ (slider.show_value /\ slider.value_alignment = "Center") =>
              writes.value = <<Write(area.x + (saturating_sub(area.width, ValueW) \div 2),
                                     area.y - 1, "value", ValueW)>>
        /\ (slider.show_value /\ slider.value_alignment = "Right") =>
              writes.value = <<Write(area.x + saturating_sub(area.width, ValueW),
                                     area.y - 1, "value", ValueW)>>

\* C25: in horizontal mode with a label, a shown value and Left alignment,
\* the value is placed 2 columns after the label's end only if it still
\* fits in the region (label_w + 2 + value_w <= width); when it does not
\* fit, the value falls back to the rightmost position x + width - value_w.
C25_LeftFallback ==
    (RenderedBoth /\ slider.value_alignment = "Left") =>
        Chosen.value_x = (IF slider.label + 2 + ValueW <= area.width
                          THEN area.x + slider.label + 2
                          ELSE area.x + saturating_sub(area.width, ValueW))

\* the cells of the bar: the bar row across the region for a horizontal
\* slider, the centre column over the region's height for a vertical one
BarCells ==
    IF slider.orientation = "Horizontal"
    THEN {<<c, area.y>> : c \in Columns}
    ELSE {<<center_x(area), r>> : r \in area.y .. (area.y + area.height - 1)}

\* C26: the label and the value are written before the bar, so after a
\* render every bar cell shows the bar's own glyph, a pad space or the
\* handle, whatever the label, value, alignment or region position.
C26_BarIntact ==
    RenderedAny =>
        \A c \in BarCells : buf[c].g \in {"filled", "empty", "pad", "handle"}

\* the iterations of the bar loop that made a render's set_string calls ws:
\* one per glyph, and one for all the pad spaces
LoopsOf(ws) ==
    Cardinality({i \in DOMAIN ws : ws[i].g # "pad"})
        + (IF \E i \in DOMAIN ws : ws[i].g = "pad" THEN 1 ELSE 0)

\* C27: render_horizontal and render_vertical terminate for every width,
\* height and symbol, empty and zero-width symbols included: every
\* iteration of the bar loop and of the handle loop advances by at least one
\* cell, or pads the rest and stops, so each loop makes at most width
\* (height) iterations; the bar loop made exactly the iterations its
\* set_string calls show.
C27_WalksBounded ==
    RenderedAny =>
        IF slider.orientation = "Horizontal"
        THEN /\ fill_iterations(slider, area, 0, 0) <= area.width
             /\ fill_iterations(slider, area, 0, 0) = LoopsOf(writes.fill)
             /\ handle_iterations(slider, 0, filled_columns(slider, area.width),
                                  area.width, 0) <= area.width
        ELSE /\ vertical_iterations(slider, area, 0, area.y + area.height - 1, 0)
                    <= area.height
             /\ vertical_iterations(slider, area, 0, area.y + area.height - 1, 0)
                    = LoopsOf(writes.fill)
             /\ vertical_handle_iterations(slider, 0, filled_rows(slider, area.height),
                                           area.height, 0) <= area.height

C27_Witness ==
    /\ Rendered
    /\ slider.filled_symbol = 0 /\ slider.empty_symbol = 0 /\ slider.show_handle
    /\ area.width = MaxWidth
    /\ filled_columns(slider, area.width) = MaxWidth
    /\ fill_iterations(slider, area, 0, 0) = MaxWidth
    /\ handle_iterations(slider, 0, MaxWidth, MaxWidth, 0) = MaxWidth
    /\ Len(writes.fill) = MaxWidth
    /\ buf = EmptyBuf

(***************************************************************************)
(* Further properties of SliderState.                                      *)
(***************************************************************************)
\* C28: set_from_position(pos, length) with length == 0 leaves value, min,
\* max and step unchanged for every pos; with length > 0 it sets
\* value = min + (max - min) * min(pos / length, 1), so a pos beyond length
\* puts the value at max.
C28_SetFromPosition ==
    last.op = "set_from_position" =>
        /\ last.ok
        /\ [min |-> min, max |-> max, step |-> step]
              = [min |-> last.pre.min, max |-> last.pre.max, step |-> last.pre.step]
        /\ IF last.args.len = 0
           THEN value = last.pre.value
           ELSE LET pos == IF last.args.pos < last.args.len THEN last.args.pos
                           ELSE last.args.len
                IN  /\ value = FAdd(min, Num(((max.n - min.n) * pos) \div last.args.len))
                    /\ last.args.pos >= last.args.len => value = max

C28_Witness ==
    /\ Did("set_from_position")
    /\ last.args.len = 2 /\ last.args.pos = MaxPos
    /\ last.pre.value = min
    /\ value = max

\* the call just made was a set_min, set_max or set_step that failed its
\* precondition
RejectedSetter == last.op \in {"set_min", "set_max", "set_step"} /\ ~last.ok

\* C29: a rejected operation performs no mutation: a set_min, set_max or
\* set_step whose precondition fails (m >= max, m <= min, s <= 0) is
\* rejected and leaves value, min, max and step exactly as they were, and
\* the operation that follows it starts from that unchanged state.
C29_RejectedNoMutation ==
    [][/\ (last'.op = "set_min" /\ FGe(last'.args.lo, max)) => ~last'.ok
       /\ (last'.op = "set_max" /\ FLe(last'.args.hi, min)) => ~last'.ok
       /\ (last'.op = "set_step" /\ FLe(last'.args.st, Num(0))) => ~last'.ok
       /\ RejectedSetter' => (Fields' = Fields /\ last'.pre = Fields /\ live' = live)
       /\ RejectedSetter => last'.pre = last.pre]_vars

C29_Witness ==
    /\ live
    /\ Rejected("set_max") /\ FLe(last.args.hi, min)
    /\ FGt(value, last.args.hi)
    /\ Fields = last.pre

\* C30: for every reachable SliderState s, s.percentage() lies in [0, 1]
\* and the widget built by Slider::from_state(&s) computes the same
\* percentage (its extra clamp never changes the value), so the rendered
\* filled_columns is floor(width * s.percentage()).
C30_SamePercentage ==
    live =>
        /\ PLe(PZero, percentage) /\ PLe(percentage, POne)
        /\ ~ClampPanics(min, max)
        /\ PEq(Slider_percentage(from_state(Fields)), percentage)
        /\ \A w \in 0 .. MaxWidth :
              filled_columns(from_state(Fields), w) = (w * percentage.num) \div percentage.den

====
